---- MODULE Spec2Model ----
(***************************************************************************)
(* The note-summarization pipeline: NoteService.create_note, the RQ job    *)
(* queue, the summarize_note_task worker and the role-scoped reads of      *)
(* NoteRepository, over one shared notes table.                            *)
(*                                                                         *)
(* Every process works through its own SQLAlchemy session.  A session      *)
(* keeps the Note object it loaded; assigning an attribute and committing  *)
(* sends an UPDATE that carries only the attributes whose value differs    *)
(* from the value the session holds, and a SELECT does not overwrite the   *)
(* attributes of an object the session already holds unless the object is  *)
(* expired.  Each SELECT, INSERT and UPDATE is one atomic step; other      *)
(* processes may commit between two steps of one handler.                  *)
(***************************************************************************)
EXTENDS Integers, Sequences, FiniteSets, Bags, TLC

\* ---------------------------------------------------------------- bounds
MaxNotes == 1          \* create_note calls made in the pipeline
MaxRuns == 2           \* deliveries of jobs to summarize_note_task
MaxRows == 2           \* rows of the notes table the read requests see
MaxListed == 5         \* rows of the notes table the paginated requests see
MaxPage == 3           \* page numbers requested: 1..MaxPage
MaxSize == 3           \* page sizes requested: 1..MaxSize
MaxSignups == 3        \* create_user calls made
MaxStamps == 3         \* transaction times of the stamped updates: 1..MaxStamps

\* ------------------------------------------------------------ data model
\* Optional[str]: <<>> is None, <<s>> is the string s.
None == <<>>
Some(v) == <<v>>

\* `if summary:` / `if job_id:` -- neither None nor the empty string.
Truthy(opt) == opt # None /\ opt[1] # ""

UserRole == {"ADMIN", "AGENT"}
NoteStatus == {"queued", "processing", "done", "failed"}

\* The users of test_get_notes_with_role_filtering: two agents and an admin.
Users ==
  { [id |-> 1, role |-> "AGENT"],
    [id |-> 2, role |-> "AGENT"],
    [id |-> 3, role |-> "ADMIN"] }

\* Request bodies of POST /notes/ (raw_text, 1..10000 characters).
RawTexts == {"Private note"}

\* An insert that leaves the status to the worker's first value.
NoteInProcessing(raw_text, owner_id, now) ==
  [ raw_text   |-> raw_text,
    owner_id   |-> owner_id,
    status     |-> "processing",
    summary    |-> None,
    job_id     |-> None,
    created_at |-> now ]

\* Row of the notes table as NoteRepository.create_note inserts it;
\* created_at is the server's now() at the insert.
Note(raw_text, owner_id, now) ==
  [ raw_text   |-> raw_text,
    owner_id   |-> owner_id,
    status     |-> "queued",
    summary    |-> None,
    job_id     |-> None,
    created_at |-> now ]

\* The mutable attributes of a Note object held by a session.
Loaded(row) ==
  [ status |-> row.status, summary |-> row.summary, job_id |-> row.job_id ]

\* What a session holds of an object it has not loaded, or that is expired.
Expired == [ status |-> "", summary |-> None, job_id |-> None ]

\* NoteResponse.model_validate(note), note being the row `id` of the table
\* as a session holds it: id, raw_text, summary, status, created_at.
NoteResponse(table, id, obj) ==
  [ id |-> id, raw_text |-> table[id].raw_text, summary |-> obj.summary,
    status |-> obj.status, created_at |-> table[id].created_at ]

ServiceUnavailableError ==
  [ status_code |-> 503,
    detail |-> "Background processing service is currently unavailable" ]

NoteNotFoundError == [ status_code |-> 404, detail |-> "Note not found" ]

\* An exception no handler of create_note catches: the framework answers 500.
UnhandledError == [ status_code |-> 500, detail |-> "Internal Server Error" ]

UserAlreadyExistsError ==
  [ status_code |-> 409, detail |-> "User with this email already exists" ]

Pending == <<>>
Returned(view) == <<"returned", view>>
Raised(error) == <<"raised", error>>

\* ------------------------------------------------------------ summarizer
\* The T5 model's decoded output for a text: an opaque deterministic value.
T5Decode(text) == "t5: " \o text

TruncateAt == 100

\* generate_t5_summary: the model's output when the model is available,
\* else (load failure or an error while generating) the truncation fallback.
generate_t5_summary(text, t5_ok) ==
  IF t5_ok
  THEN T5Decode(text)
  ELSE IF Len(text) > TruncateAt
       THEN "Summary: " \o SubSeq(text, 1, TruncateAt) \o "..."
       ELSE text

\* ------------------------------------------------------------ repository
\* A commit that sends every assigned attribute, changed or not.
FlushAssigned(row, obj, assigned) ==
  [ f \in DOMAIN row |-> IF f \in DOMAIN assigned THEN assigned[f] ELSE row[f] ]

\* An UPDATE on a table whose created_at column is stamped on update as
\* updated_at is.
FlushStampingCreatedAt(row, obj, assigned) ==
  [ f \in DOMAIN row |->
      IF f \in DOMAIN assigned /\ assigned[f] # obj[f]
      THEN assigned[f]
      ELSE IF f = "created_at"
              /\ \E g \in DOMAIN assigned : assigned[g] # obj[g]
           THEN row[f] + 1
           ELSE row[f] ]

\* session.commit(): the UPDATE of one row.  obj is what the session holds
\* for the row, assigned the attribute values set on the object; only the
\* attributes whose value changed are written.
Flush(row, obj, assigned) ==
  [ f \in DOMAIN row |->
      IF f \in DOMAIN assigned /\ assigned[f] # obj[f]
      THEN assigned[f]
      ELSE row[f] ]

\* An update_note_status that assigns summary and job_id whatever they are.
StatusAssignmentUnguarded(obj, status, summary, job_id) ==
  [ status |-> status, summary |-> summary, job_id |-> job_id ]

\* An update_note_status whose `if job_id:` branch is lost.
StatusAssignmentWithoutJob(obj, status, summary, job_id) ==
  [ status  |-> status,
    summary |-> IF Truthy(summary) THEN summary ELSE obj.summary,
    job_id  |-> obj.job_id ]

\* The attribute values update_note_status sets on the object.
StatusAssignment(obj, status, summary, job_id) ==
  [ status  |-> status,
    summary |-> IF Truthy(summary) THEN summary ELSE obj.summary,
    job_id  |-> IF Truthy(job_id) THEN job_id ELSE obj.job_id ]

\* An update_note_status that never commits.
update_note_status_uncommitted(table, obj, note_id, status, summary, job_id) ==
  table

\* An update_note_status that sets summary and job_id but not the status.
update_note_status_keeps_status(table, obj, note_id, status, summary, job_id) ==
  IF note_id \in DOMAIN table
  THEN [ table EXCEPT ![note_id] =
           Flush(table[note_id], obj,
                 StatusAssignment(obj, obj.status, summary, job_id)) ]
  ELSE table

\* NoteRepository.update_note_status up to its commit: the table afterwards.
update_note_status(table, obj, note_id, status, summary, job_id) ==
  IF note_id \in DOMAIN table
  THEN [ table EXCEPT ![note_id] =
           Flush(table[note_id], obj,
                 StatusAssignment(obj, status, summary, job_id)) ]
  ELSE table

\* A get_note_by_id that asks for owner_id = user.id whatever the role.
get_note_by_id_owner_only(table, note_id, user) ==
  IF note_id \in DOMAIN table /\ table[note_id].owner_id = user.id
  THEN Some(note_id)
  ELSE None

\* A get_note_by_id that never asks for the owner.
get_note_by_id_unscoped(table, note_id, user) ==
  IF note_id \in DOMAIN table THEN Some(note_id) ELSE None

\* NoteRepository.get_note_by_id: the id of the row the query selects, or
\* None.  For an AGENT the query also asks for owner_id = user.id.
get_note_by_id(table, note_id, user) ==
  IF /\ note_id \in DOMAIN table
     /\ (user.role = "AGENT" => table[note_id].owner_id = user.id)
  THEN Some(note_id)
  ELSE None

\* A get_notes query without the role filter.
SelectedUnscoped(table, user) == DOMAIN table

\* The rows the query of NoteRepository.get_notes selects: all of them for
\* an ADMIN, the user's own for an AGENT.
Selected(table, user) ==
  { n \in DOMAIN table : user.role = "AGENT" => table[n].owner_id = user.id }

\* ------------------------------------------------------------- filtering
\* str.lower() and the case folding of ILIKE, on the letters of the texts.
UpperCase == "ABCDEFGHIJKLMNOPQRSTUVWXYZ"
LowerCase == "abcdefghijklmnopqrstuvwxyz"

ToLower ==
  [ c \in {SubSeq(UpperCase, i, i) : i \in 1..Len(UpperCase)} |->
      LET i == CHOOSE i \in 1..Len(UpperCase) : SubSeq(UpperCase, i, i) = c
      IN SubSeq(LowerCase, i, i) ]

LowerChar(c) == IF c \in DOMAIN ToLower THEN ToLower[c] ELSE c

\* text.lower(), as characters.
Lower(text) == [ i \in 1..Len(text) |-> LowerChar(SubSeq(text, i, i)) ]

\* The database's LIKE, text from position i against pattern from position
\* j: in the pattern % stands for any run of characters, _ for any one
\* character, and a backslash makes the next character literal.
RECURSIVE Like(_, _, _, _)
Like(text, i, pattern, j) ==
  IF j > Len(pattern) THEN i > Len(text)
  ELSE IF pattern[j] = "%"
  THEN \E k \in i..(Len(text) + 1) : Like(text, k, pattern, j + 1)
  ELSE IF pattern[j] = "_"
  THEN i <= Len(text) /\ Like(text, i + 1, pattern, j + 1)
  ELSE IF pattern[j] = "\\" /\ j < Len(pattern)
  THEN /\ i <= Len(text)
       /\ text[i] = pattern[j + 1]
       /\ Like(text, i + 1, pattern, j + 2)
  ELSE /\ i <= Len(text)
       /\ text[i] = pattern[j]
       /\ Like(text, i + 1, pattern, j + 1)

\* column.ilike(pattern): LIKE without regard to case; the pattern is given
\* by its characters.
ilike(text, pattern) ==
  Like(Lower(text), 1, [i \in DOMAIN pattern |-> LowerChar(pattern[i])], 1)

\* `search_lower in text.lower()` of the in-memory repository: the term is a
\* substring of the text, compared without regard to case.
Contains(text, term) ==
  \E i \in 0..(Len(text) - Len(term)) :
    \A k \in 1..Len(term) : Lower(text)[i + k] = Lower(term)[k]

\* NoteFilters: each field None or a value.
NoteFilters(search, status, created_after, created_before) ==
  [ search |-> search, status |-> status,
    created_after |-> created_after, created_before |-> created_before ]

\* apply_note_filters: the rows of `ids` that meet every condition the
\* filters give.  A NULL summary meets no ILIKE.
apply_note_filters(table, ids, filters) ==
  { n \in ids :
      /\ Truthy(filters.search) =>
           LET search_term == <<"%">> \o Lower(filters.search[1]) \o <<"%">>
           IN \/ ilike(table[n].raw_text, search_term)
              \/ /\ table[n].summary # None
                 /\ ilike(table[n].summary[1], search_term)
      /\ filters.status # None => table[n].status = filters.status[1]
      /\ filters.created_after # None =>
           table[n].created_at >= filters.created_after[1]
      /\ filters.created_before # None =>
           table[n].created_at <= filters.created_before[1] }

\* The rows the query of NoteRepository.get_notes selects under the role
\* filter and `if filters:`.
Matching(table, user, filters) ==
  IF filters = None
  THEN Selected(table, user)
  ELSE apply_note_filters(table, Selected(table, user), filters)

\* ORDER BY created_at ASC: the oldest rows first.
RECURSIVE OldestFirst(_, _)
OldestFirst(table, ids) ==
  IF ids = {}
  THEN {<<>>}
  ELSE UNION
    { { <<n>> \o rest : rest \in OldestFirst(table, ids \ {n}) } :
        n \in { m \in ids :
                  \A k \in ids : table[m].created_at <= table[k].created_at } }

\* ORDER BY created_at DESC: the orders in which the database may return
\* the rows `ids` (rows of equal created_at come in any order).
RECURSIVE NewestFirst(_, _)
NewestFirst(table, ids) ==
  IF ids = {}
  THEN {<<>>}
  ELSE UNION
    { { <<n>> \o rest : rest \in NewestFirst(table, ids \ {n}) } :
        n \in { m \in ids :
                  \A k \in ids : table[m].created_at >= table[k].created_at } }

\* NoteRepository.get_notes without pagination: (notes, total) for one
\* order of the selected rows.
get_notes(table, user, order) ==
  << [i \in DOMAIN order |-> order[i]], Len(order) >>

\* PaginatedResponse: the body of a list response.
PaginatedResponse(items, total, page, size, pages) ==
  [ items |-> items, total |-> total, page |-> page, size |-> size,
    pages |-> pages ]

\* PaginationParams: page >= 1 and 1 <= size <= MaxPageSize.
MaxPageSize == 100

PaginationParams(page, size) == [ page |-> page, size |-> size ]

\* PaginationParams.offset.
offset(pagination) == (pagination.page - 1) * pagination.size

\* query.offset(pagination.offset).limit(pagination.size) on the rows in the
\* order the database returns them.
Window(order, pagination) ==
  LET first == offset(pagination) + 1
      last == IF offset(pagination) + pagination.size < Len(order)
              THEN offset(pagination) + pagination.size
              ELSE Len(order)
  IN IF first > last THEN <<>> ELSE SubSeq(order, first, last)

\* A page count that rounds down.
create_paginated_response_floor(items, total, pagination) ==
  PaginatedResponse(items, total, pagination.page, pagination.size,
                    total \div pagination.size)

\* create_paginated_response: pages by ceiling division.
create_paginated_response(items, total, pagination) ==
  PaginatedResponse(items, total, pagination.page, pagination.size,
                    (total + pagination.size - 1) \div pagination.size)

\* ----------------------------------------------------------------- state
VARIABLES
  notes,      \* the notes table: id -> row (ids 1, 2, ... in insert order)
  calls,      \* create_note calls made, by the id of the note they insert
  jobs,       \* the 'summarization' queue: note id -> id of the note's job
  runs,       \* summarize_note_task runs: a bag of run records
  ever_done,  \* history: ids of the notes whose status has been done
  resp,       \* the last get_note / get_notes request and its response
  listing,    \* the paginated get_notes request between its two queries
  users,      \* the users table: id -> row, committed rows only
  signups,    \* create_user calls made, in the order they were made
  mock        \* MockNoteRepository.notes: id -> Note, in insertion order

vars == <<notes, calls, jobs, runs, ever_done, resp, listing, users, signups, mock>>

NoteIds == DOMAIN notes

NoResp == <<>>

Init ==
  /\ notes = <<>>
  /\ calls = <<>>
  /\ jobs = <<>>
  /\ runs = EmptyBag
  /\ ever_done = {}
  /\ resp = NoResp
  /\ listing = None
  /\ users = <<>>
  /\ signups = <<>>
  /\ mock = <<>>

CallIds == DOMAIN calls

\* The table after a write, with the history of done updated.
Write(table) ==
  /\ notes' = table
  /\ ever_done' = ever_done \cup {n \in DOMAIN table : table[n].status = "done"}

\* The server clock: now() at an insert is later than the created_at of
\* every row inserted before.
Latest == IF notes = <<>> THEN 0
          ELSE CHOOSE t \in {notes[n].created_at : n \in NoteIds} :
                 \A n \in NoteIds : notes[n].created_at <= t

Clock == {Latest + 1}

\* A create_note that inserts in the transaction of its enqueue: the queue
\* being unreachable, the insert is rolled back with the 503 and the note
\* is lost.
CreateNoteUncommitted(user, raw_text, now) ==
  /\ calls' = (Len(notes) + 1 :>
                 [ pc |-> "raised",
                   note |-> Expired,
                   enqueue |-> "ConnectionError", job |-> None,
                   update_failed |-> TRUE,
                   result |-> Raised(ServiceUnavailableError) ]) @@ calls
  /\ resp' = NoResp
  /\ UNCHANGED <<listing, users, signups, mock>>
  /\ UNCHANGED <<notes, ever_done, jobs, runs>>

\* ------------------------------------------------- NoteService.create_note
\* repository.create_note: INSERT, commit, refresh.
CreateNote(user, raw_text, now) ==
  /\ Write(Append(notes, Note(raw_text, user.id, now)))
  /\ calls' = (Len(notes) + 1 :>
                 [ pc |-> "enqueue",
                   note |-> Loaded(Note(raw_text, user.id, now)),
                   enqueue |-> "", job |-> None, update_failed |-> FALSE,
                   result |-> Pending ]) @@ calls
  /\ resp' = NoResp
  /\ UNCHANGED <<listing, users, signups, mock>>
  /\ UNCHANGED <<jobs, runs>>

\* The id the queue gives the job it accepts for note n (a fresh uuid).
JobId(n) == "job-" \o ToString(n)

\* A submission in a retry loop: after a failure the call submits again.
EnqueueRetrying(n, outcome) ==
  /\ n \in CallIds
  /\ calls[n].pc = "enqueue"
  /\ IF outcome = "enqueued"
     THEN /\ jobs' = (n :> JobId(n)) @@ jobs
          /\ calls' = [calls EXCEPT ![n].pc = "record_job",
                                    ![n].enqueue = outcome,
                                    ![n].job = Some(JobId(n))]
     ELSE /\ calls' = [calls EXCEPT ![n].enqueue = outcome]
          /\ UNCHANGED jobs
  /\ resp' = NoResp
  /\ UNCHANGED <<listing, users, signups, mock>>
  /\ UNCHANGED <<notes, runs, ever_done>>

\* redis.from_url, Queue(...), queue.enqueue(...): the job is accepted, or
\* the transport raises redis.ConnectionError, or anything else is raised.
Enqueue(n, outcome) ==
  /\ n \in CallIds
  /\ calls[n].pc = "enqueue"
  /\ \/ /\ outcome = "enqueued"
        /\ jobs' = (n :> JobId(n)) @@ jobs
        /\ calls' = [calls EXCEPT ![n].pc = "record_job",
                                  ![n].enqueue = outcome,
                                  ![n].job = Some(JobId(n))]
     \/ /\ outcome = "ConnectionError"
        /\ calls' = [calls EXCEPT ![n].pc = "connection_error",
                                  ![n].enqueue = outcome]
        /\ UNCHANGED jobs
     \/ /\ outcome = "Exception"
        /\ calls' = [calls EXCEPT ![n].pc = "queue_failure",
                                  ![n].enqueue = outcome]
        /\ UNCHANGED jobs
  /\ resp' = NoResp
  /\ UNCHANGED <<listing, users, signups, mock>>
  /\ UNCHANGED <<notes, runs, ever_done>>

\* update_note_status(note.id, note.status, job_id=job.id) up to its commit.
\* A database error here is caught by `except Exception`.
RecordJob(n, db_ok) ==
  /\ n \in CallIds
  /\ calls[n].pc = "record_job"
  /\ IF db_ok
     THEN /\ Write(update_note_status(notes, calls[n].note, n,
                                      calls[n].note.status, None, calls[n].job))
          /\ calls' = [calls EXCEPT
               ![n].pc = "refresh_job",
               ![n].note = StatusAssignment(calls[n].note,
                             calls[n].note.status, None, calls[n].job)]
     ELSE /\ calls' = [calls EXCEPT ![n].pc = "queue_failure"]
          /\ UNCHANGED <<notes, ever_done>>
  /\ resp' = NoResp
  /\ UNCHANGED <<listing, users, signups, mock>>
  /\ UNCHANGED <<jobs, runs>>

\* db.refresh(note) closing update_note_status on the success path, then
\* `return NoteResponse.model_validate(note)`.  A database error in the
\* refresh is caught by `except Exception`.
ReturnEnqueued(n, db_ok) ==
  /\ n \in CallIds
  /\ calls[n].pc = "refresh_job"
  /\ IF db_ok
     THEN calls' = [calls EXCEPT
            ![n].pc = "returned",
            ![n].note = Expired,
            ![n].result = Returned(NoteResponse(notes, n, Loaded(notes[n])))]
     ELSE calls' = [calls EXCEPT ![n].pc = "queue_failure"]
  /\ resp' = NoResp
  /\ UNCHANGED <<listing, users, signups, mock>>
  /\ UNCHANGED <<notes, jobs, runs, ever_done>>

\* except redis.ConnectionError: update_note_status(note.id, failed) with its
\* failure swallowed, then raise ServiceUnavailableError.
FailOnConnectionError(n, db_ok) ==
  /\ n \in CallIds
  /\ calls[n].pc = "connection_error"
  /\ IF db_ok
     THEN Write(update_note_status(notes, calls[n].note, n, "failed", None, None))
     ELSE UNCHANGED <<notes, ever_done>>
  /\ calls' = [calls EXCEPT ![n].pc = "raised",
                            ![n].note = Expired,
                            ![n].update_failed = ~db_ok,
                            ![n].result = Raised(ServiceUnavailableError)]
  /\ resp' = NoResp
  /\ UNCHANGED <<listing, users, signups, mock>>
  /\ UNCHANGED <<jobs, runs>>

\* What the service's session holds of the note after update_note_status
\* raised: the attributes as loaded (the SELECT failed), with the status
\* assigned (the COMMIT failed after the flush), or expired (the flush or the
\* refresh failed: a rollback and a refresh expire the object).
SessionHolds == {"loaded", "assigned", "expired"}

\* except Exception: update_note_status(note.id, failed) up to its commit.
\* When it raises, the error is logged and NoteResponse.model_validate(note)
\* reads the note object as the session holds it; reading an expired object
\* outside the session's I/O context raises.
FailOnQueueFailure(n, db_ok, held) ==
  /\ n \in CallIds
  /\ calls[n].pc = "queue_failure"
  /\ IF db_ok
     THEN /\ Write(update_note_status(notes, calls[n].note, n, "failed", None, None))
          /\ calls' = [calls EXCEPT
               ![n].pc = "refresh_failed",
               ![n].note = StatusAssignment(calls[n].note, "failed", None, None)]
     ELSE /\ LET obj == IF held = "assigned"
                        THEN StatusAssignment(calls[n].note, "failed", None, None)
                        ELSE calls[n].note
             IN calls' = [calls EXCEPT
                  ![n].pc = IF held = "expired" THEN "raised" ELSE "returned",
                  ![n].note = Expired,
                  ![n].update_failed = TRUE,
                  ![n].result = IF held = "expired"
                                THEN Raised(UnhandledError)
                                ELSE Returned(NoteResponse(notes, n, obj))]
          /\ UNCHANGED <<notes, ever_done>>
  /\ resp' = NoResp
  /\ UNCHANGED <<listing, users, signups, mock>>
  /\ UNCHANGED <<jobs, runs>>

\* db.refresh(note) closing update_note_status(note.id, failed), then
\* `return NoteResponse.model_validate(note)`.  A failed refresh is logged
\* and leaves the object as assigned or expired.
ReturnFailed(n, db_ok, held) ==
  /\ n \in CallIds
  /\ calls[n].pc = "refresh_failed"
  /\ LET obj == IF db_ok THEN Loaded(notes[n]) ELSE calls[n].note
         raises == ~db_ok /\ held = "expired"
     IN calls' = [calls EXCEPT
          ![n].pc = IF raises THEN "raised" ELSE "returned",
          ![n].note = Expired,
          ![n].update_failed = ~db_ok,
          ![n].result = IF raises
                        THEN Raised(UnhandledError)
                        ELSE Returned(NoteResponse(notes, n, obj))]
  /\ resp' = NoResp
  /\ UNCHANGED <<listing, users, signups, mock>>
  /\ UNCHANGED <<notes, jobs, runs, ever_done>>

\* ------------------------------------------------------ summarize_note_task
\* A run of the handler: where it stands, the note id of its job, the Note
\* object of its session (the worker reads and assigns status and summary
\* only), the summary it computed, and whether it entered the except block.
Run(pc, note_id, obj, summary, raised) ==
  [ pc |-> pc, note_id |-> note_id,
    obj |-> [status |-> obj.status, summary |-> obj.summary],
    summary |-> summary, raised |-> raised ]

Finished(run) == Run("finished", run.note_id, Expired, None, run.raised)

Recovering(run) == Run("recover", run.note_id, Expired, None, TRUE)

ActiveRuns == {r \in BagToSet(runs) : r.pc # "finished"}

\* One run of the bag moves on.
Step(run, next) == runs' = (runs (-) SetToBag({run})) (+) SetToBag({next})

\* A handler that goes on without its note: `note.status = ...` on None
\* raises and the run enters the except block.
StartRunWithoutCheck(n, db_ok) ==
  /\ runs' = runs (+) SetToBag({
       IF db_ok /\ n \in NoteIds
       THEN Run("set_processing", n, Loaded(notes[n]), None, FALSE)
       ELSE Run("recover", n, Expired, None, TRUE) })
  /\ resp' = NoResp
  /\ UNCHANGED <<listing, users, signups, mock>>
  /\ UNCHANGED <<notes, calls, jobs, ever_done>>

\* A worker is handed a job for note id n and the handler loads the note:
\* `if not note: return` ends the run when the store has no such note.  A
\* database error enters the handler's except block.
StartRun(n, db_ok) ==
  /\ runs' = runs (+) SetToBag({
       IF ~db_ok THEN Run("recover", n, Expired, None, TRUE)
       ELSE IF n \in NoteIds
            THEN Run("set_processing", n, Loaded(notes[n]), None, FALSE)
            ELSE Run("finished", n, Expired, None, FALSE) })
  /\ resp' = NoResp
  /\ UNCHANGED <<listing, users, signups, mock>>
  /\ UNCHANGED <<notes, calls, jobs, ever_done>>

\* A worker commit that loses the summary.
WorkerCommitStatusOnly(table, run, assigned) ==
  [ table EXCEPT ![run.note_id] =
      Flush(table[run.note_id], run.obj, [status |-> assigned.status]) ]

\* A worker commit that loses the status.
WorkerCommitKeepsStatus(table, run, assigned) ==
  [ table EXCEPT ![run.note_id] =
      Flush(table[run.note_id], run.obj,
            [f \in DOMAIN assigned \ {"status"} |-> assigned[f]]) ]

\* The table after the worker's session commits `assigned` on its note.
WorkerCommit(table, run, assigned) ==
  [ table EXCEPT ![run.note_id] = Flush(table[run.note_id], run.obj, assigned) ]

\* note.status = NoteStatus.processing; db.commit().  The commit expires the
\* session's object.
SetProcessing(run, db_ok) ==
  /\ run \in BagToSet(runs)
  /\ run.pc = "set_processing"
  /\ IF db_ok
     THEN /\ Write(WorkerCommit(notes, run, [status |-> "processing"]))
          /\ Step(run, Run("summarize", run.note_id, Expired, None, FALSE))
     ELSE /\ Step(run, Recovering(run))
          /\ UNCHANGED <<notes, ever_done>>
  /\ resp' = NoResp
  /\ UNCHANGED <<listing, users, signups, mock>>
  /\ UNCHANGED <<calls, jobs>>

\* generate_t5_summary(note.raw_text): reading raw_text reloads the expired
\* object; the summarizer itself catches its own errors.
Summarize(run, db_ok, t5_ok) ==
  /\ run \in BagToSet(runs)
  /\ run.pc = "summarize"
  /\ Step(run,
       IF db_ok
       THEN Run("write_done", run.note_id, Loaded(notes[run.note_id]),
                Some(generate_t5_summary(notes[run.note_id].raw_text, t5_ok)),
                FALSE)
       ELSE Recovering(run))
  /\ resp' = NoResp
  /\ UNCHANGED <<listing, users, signups, mock>>
  /\ UNCHANGED <<notes, calls, jobs, ever_done>>

\* note.summary = summary; note.status = NoteStatus.done; db.commit().
WriteDone(run, db_ok) ==
  /\ run \in BagToSet(runs)
  /\ run.pc = "write_done"
  /\ IF db_ok
     THEN /\ Write(WorkerCommit(notes, run,
                     [status |-> "done", summary |-> run.summary]))
          /\ Step(run, Finished(run))
     ELSE /\ Step(run, Recovering(run))
          /\ UNCHANGED <<notes, ever_done>>
  /\ resp' = NoResp
  /\ UNCHANGED <<listing, users, signups, mock>>
  /\ UNCHANGED <<calls, jobs>>

\* except Exception: the note is loaded again; `if note:` skips the write
\* when the store has no such note, and a failure here is only logged.
RecoverLoad(run, db_ok) ==
  /\ run \in BagToSet(runs)
  /\ run.pc = "recover"
  /\ Step(run,
       IF db_ok /\ run.note_id \in NoteIds
       THEN Run("recover_write", run.note_id, Loaded(notes[run.note_id]),
                None, TRUE)
       ELSE Finished(run))
  /\ resp' = NoResp
  /\ UNCHANGED <<listing, users, signups, mock>>
  /\ UNCHANGED <<notes, calls, jobs, ever_done>>

\* A recovery write without its own try: a failure leaves the handler as an
\* exception of the job.
RecoverWriteUncaught(run, db_ok) ==
  /\ run \in BagToSet(runs)
  /\ run.pc = "recover_write"
  /\ IF db_ok
     THEN /\ Write(WorkerCommit(notes, run, [status |-> "failed"]))
          /\ Step(run, Finished(run))
     ELSE /\ Step(run, Run("propagated", run.note_id, Expired, None, TRUE))
          /\ UNCHANGED <<notes, ever_done>>
  /\ resp' = NoResp
  /\ UNCHANGED <<listing, users, signups, mock>>
  /\ UNCHANGED <<calls, jobs>>

\* note.status = NoteStatus.failed; db.commit(); a failure is only logged.
RecoverWrite(run, db_ok) ==
  /\ run \in BagToSet(runs)
  /\ run.pc = "recover_write"
  /\ IF db_ok
     THEN Write(WorkerCommit(notes, run, [status |-> "failed"]))
     ELSE UNCHANGED <<notes, ever_done>>
  /\ Step(run, Finished(run))
  /\ resp' = NoResp
  /\ UNCHANGED <<listing, users, signups, mock>>
  /\ UNCHANGED <<calls, jobs>>

\* ------------------------------------------------------------------ reads
\* NoteService.get_note: the view of the note the repository finds, or
\* NoteNotFoundError.
get_note(table, note_id, user) ==
  LET note == get_note_by_id(table, note_id, user)
  IN IF note = None
     THEN Raised(NoteNotFoundError)
     ELSE Returned(NoteResponse(table, note[1], Loaded(table[note[1]])))

\* GET /notes/{note_id}.
GetNote(user, note_id) ==
  /\ resp' = [ op |-> "get_note", user |-> user, note_id |-> note_id,
               result |-> get_note(notes, note_id, user) ]
  /\ UNCHANGED <<notes, calls, jobs, runs, ever_done, listing, users,
               signups, mock>>

\* [NoteResponse.model_validate(note) for note in notes].
note_responses(table, ids) ==
  [ i \in DOMAIN ids |-> NoteResponse(table, ids[i], Loaded(table[ids[i]])) ]

\* A list response that reports no page when it has no item.
ListNotesNoPageWhenEmpty(user, filters) ==
  /\ \E order \in NewestFirst(notes, Matching(notes, user, filters)) :
       LET got == get_notes(notes, user, order)
       IN resp' =
            [ op |-> "get_notes", user |-> user, note_id |-> 0,
              pagination |-> None, filters |-> filters,
              result |-> Returned(
                PaginatedResponse(note_responses(notes, got[1]), got[2], 1,
                                  got[2], IF got[2] = 0 THEN 0 ELSE 1)) ]
  /\ UNCHANGED <<notes, calls, jobs, runs, ever_done, listing, users,
               signups, mock>>

\* NoteService.get_notes(user, None, filters): one query, one page.
ListNotes(user, filters) ==
  /\ \E order \in NewestFirst(notes, Matching(notes, user, filters)) :
       LET got == get_notes(notes, user, order)
       IN resp' =
            [ op |-> "get_notes", user |-> user, note_id |-> 0,
              pagination |-> None, filters |-> filters,
              result |-> Returned(
                PaginatedResponse(note_responses(notes, got[1]), got[2], 1,
                                  got[2], 1)) ]
  /\ UNCHANGED <<notes, calls, jobs, runs, ever_done, listing, users,
               signups, mock>>

\* NoteService.get_notes(user, pagination, filters), first query of
\* paginate_query: the count of the matching rows.
CountNotes(user, pagination, filters) ==
  /\ listing = None
  /\ listing' = Some([ user |-> user, pagination |-> pagination,
                       filters |-> filters,
                       total |-> Cardinality(Matching(notes, user, filters)) ])
  /\ resp' = NoResp
  /\ UNCHANGED <<notes, calls, jobs, runs, ever_done, users, signups, mock>>

\* Second query of paginate_query, on the store as it is by then: the rows
\* of the page; then the response, with the total of the first query.
PageNotes ==
  /\ listing # None
  /\ LET user == listing[1].user
         pagination == listing[1].pagination
         filters == listing[1].filters
     IN \E order \in NewestFirst(notes, Matching(notes, user, filters)) :
          resp' =
            [ op |-> "get_notes", user |-> user, note_id |-> 0,
              pagination |-> Some(pagination), filters |-> filters,
              result |-> Returned(
                create_paginated_response(
                  note_responses(notes, Window(order, pagination)),
                  listing[1].total, pagination)) ]
  /\ listing' = None
  /\ UNCHANGED <<notes, calls, jobs, runs, ever_done, users, signups, mock>>

\* --------------------------------------------------------- specifications
\* The pipeline reads no attribute of the caller but its id, which it stores
\* as owner_id and never reads back: one caller stands for all.
Callers == {u \in Users : u.id = 1}

Create ==
  /\ Len(notes) < MaxNotes
  /\ \E user \in Callers, raw_text \in RawTexts, now \in Clock :
       CreateNote(user, raw_text, now)

Service ==
  \/ \E n \in CallIds, outcome \in {"enqueued", "ConnectionError", "Exception"} :
       Enqueue(n, outcome)
  \/ \E n \in CallIds, db_ok \in BOOLEAN : RecordJob(n, db_ok)
  \/ \E n \in CallIds, db_ok \in BOOLEAN : ReturnEnqueued(n, db_ok)
  \/ \E n \in CallIds, db_ok \in BOOLEAN : FailOnConnectionError(n, db_ok)
  \/ \E n \in CallIds, db_ok \in BOOLEAN, held \in SessionHolds :
       FailOnQueueFailure(n, db_ok, held)
  \/ \E n \in CallIds, db_ok \in BOOLEAN, held \in SessionHolds \ {"loaded"} :
       ReturnFailed(n, db_ok, held)

Progress ==
  \/ \E run \in ActiveRuns, db_ok \in BOOLEAN : SetProcessing(run, db_ok)
  \/ \E run \in ActiveRuns, db_ok \in BOOLEAN, t5_ok \in BOOLEAN :
       Summarize(run, db_ok, t5_ok)
  \/ \E run \in ActiveRuns, db_ok \in BOOLEAN : WriteDone(run, db_ok)
  \/ \E run \in ActiveRuns, db_ok \in BOOLEAN : RecoverLoad(run, db_ok)
  \/ \E run \in ActiveRuns, db_ok \in BOOLEAN : RecoverWrite(run, db_ok)

\* The queue hands a job to a worker at least once: a job stays deliverable.
Deliver ==
  /\ BagCardinality(runs) < MaxRuns
  /\ \E n \in DOMAIN jobs, db_ok \in BOOLEAN : StartRun(n, db_ok)

\* No step of the service or of a worker reads or writes a note other than
\* its own, so overlapping runs are followed on the first note of the store;
\* SpecOneWorker and SpecStrayJob go through several notes.
CreateFirst == notes = <<>> /\ Create

\* Any number of worker processes: runs overlap at will.
Next == CreateFirst \/ Service \/ Deliver \/ Progress

Spec == Init /\ [][Next]_vars

\* One worker process, as `python -m app.notes.tasks` starts it: Worker.work()
\* takes the next job when the run before it has ended.
DeliverInTurn == ActiveRuns = {} /\ Deliver

NextOneWorker == Create \/ Service \/ DeliverInTurn \/ Progress

SpecOneWorker == Init /\ [][NextOneWorker]_vars

\* A job whose note id the store does not have (the next id the table would
\* give) reaches the worker.
StrayIds == {Len(notes) + 1}

DeliverStray ==
  /\ ActiveRuns = {}
  /\ BagCardinality(runs) < MaxRuns
  /\ \E n \in StrayIds, db_ok \in BOOLEAN : StartRun(n, db_ok)

NextStrayJob == Create \/ Service \/ DeliverInTurn \/ DeliverStray \/ Progress

SpecStrayJob == Init /\ [][NextStrayJob]_vars

\* The pipeline when nothing raises: the queue accepts the job, every
\* database statement of the service and of the workers succeeds, and the
\* queue hands the job of a note to up to MaxRuns overlapping runs.  The
\* model may be available to one run and not to another.
ServiceSucceeds ==
  \/ \E n \in CallIds : Enqueue(n, "enqueued")
  \/ \E n \in CallIds : RecordJob(n, TRUE)
  \/ \E n \in CallIds : ReturnEnqueued(n, TRUE)

DeliverAgain ==
  /\ BagCardinality(runs) < MaxRuns
  /\ \E n \in DOMAIN jobs : StartRun(n, TRUE)

ProgressSucceeds ==
  \/ \E run \in ActiveRuns : SetProcessing(run, TRUE)
  \/ \E run \in ActiveRuns, t5_ok \in BOOLEAN : Summarize(run, TRUE, t5_ok)
  \/ \E run \in ActiveRuns : WriteDone(run, TRUE)

NextRedelivery ==
  CreateFirst \/ ServiceSucceeds \/ DeliverAgain \/ ProgressSucceeds

SpecRedelivery == Init /\ [][NextRedelivery]_vars

\* The pipeline with a queue that hands every accepted job to a worker once
\* (queue.enqueue is called without a retry policy) and with steps that do
\* not stall: a create_note call that has started goes on to its return or
\* raise, a job in the queue is taken by Worker.work(), and a run goes on to
\* its end, whatever raises on the way.
DeliverTo(n) ==
  /\ n \in DOMAIN jobs
  /\ \A run \in BagToSet(runs) : run.note_id # n
  /\ \E db_ok \in BOOLEAN : StartRun(n, db_ok)

DeliverOnce == \E n \in DOMAIN jobs : DeliverTo(n)

\* The steps of the create_note call for note n, and of the run on note n.
ServiceOf(n) == n \in CallIds /\ Service /\ calls'[n] # calls[n]

ProgressOf(n) ==
  /\ Progress
  /\ \E run \in ActiveRuns :
       run.note_id = n /\ CopiesIn(run, runs') < CopiesIn(run, runs)

\* Jobs whose note the store does not have reach the workers as well, up to
\* MaxRuns runs in all; CreateFirst makes one note, so the id is never given.
DeliverStrayJob ==
  /\ notes # <<>>
  /\ BagCardinality(runs) < MaxRuns
  /\ \E n \in StrayIds, db_ok \in BOOLEAN : StartRun(n, db_ok)

NextDelivered ==
  CreateFirst \/ Service \/ DeliverOnce \/ DeliverStrayJob \/ Progress

SpecDelivered ==
  /\ Init
  /\ [][NextDelivered]_vars
  /\ \A n \in 1..MaxNotes :
       WF_vars(ServiceOf(n)) /\ WF_vars(DeliverTo(n))
  /\ \A n \in 1..(MaxNotes + 1) : WF_vars(ProgressOf(n))

\* The read requests, over every table of up to MaxRows rows the pipeline
\* can leave behind: any owner, any status, a summary once the worker wrote
\* one (never under status queued), any insert times.
Times == {1, 2}

QueryRows ==
  { [ Note(raw_text, user.id, now) EXCEPT !.status = status,
                                          !.summary = summary ] :
      raw_text \in RawTexts, user \in Users, now \in Times,
      status \in NoteStatus,
      summary \in {None} \cup
                  {Some(generate_t5_summary(t, TRUE)) : t \in RawTexts} }

\* The worker writes a summary with status done, and nothing sets a status
\* back to queued or clears a summary.
RowShape(row) ==
  /\ row.status = "queued" => row.summary = None
  /\ row.status = "done" => row.summary # None

QueryTables ==
  UNION { [1..k -> {row \in QueryRows : RowShape(row)}] : k \in 0..MaxRows }

InitQuery ==
  /\ notes \in QueryTables
  /\ calls = <<>>
  /\ jobs = <<>>
  /\ runs = EmptyBag
  /\ ever_done = {n \in NoteIds : notes[n].summary # None}
  /\ resp = NoResp
  /\ listing = None
  /\ users = <<>>
  /\ signups = <<>>
  /\ mock = <<>>

CreateByAnyone ==
  /\ Len(notes) < MaxRows
  /\ \E user \in Users, raw_text \in RawTexts, now \in Clock :
       CreateNote(user, raw_text, now)

Reads ==
  \/ \E user \in Users, note_id \in 1..(Len(notes) + 1) : GetNote(user, note_id)
  \/ \E user \in Users : ListNotes(user, None)

NextQuery == CreateByAnyone \/ Reads

SpecQuery == InitQuery /\ [][NextQuery]_vars

\* The pipeline with the read requests in between: get_note and the
\* unfiltered get_notes of any user run between any two steps of create_note
\* and of the worker runs.
NextFrame == CreateFirst \/ Service \/ Deliver \/ Progress \/ Reads

SpecFrame == Init /\ [][NextFrame]_vars

\* The list requests without pagination, over every table of up to MaxRows
\* rows inserted at one time and of the rows inserted after them: the texts
\* of test_get_notes_with_search, summaries the model may give, any agent as
\* owner, a summary with status done only.
SearchTexts == {"Meeting notes", "Random ideas"}

SearchSummaries == {"MEETING recap"}

\* Search terms: words of the texts in another case, and a term made of a
\* character the database reads as a wildcard.
SearchTerms == {"meeting", "IDEAS", "_"}

SearchFilters ==
  { NoteFilters(Some(term), None, None, None) : term \in SearchTerms } \cup
  { NoteFilters(None, None, None, None),
    NoteFilters(None, Some("done"), None, None),
    NoteFilters(None, None, Some(2), None),
    NoteFilters(None, None, None, Some(1)),
    NoteFilters(Some("Meeting"), Some("done"), Some(1), Some(2)) }

SearchRows ==
  { [ Note(raw_text, user.id, now) EXCEPT
        !.status = IF summary = None THEN "queued" ELSE "done",
        !.summary = summary ] :
      raw_text \in SearchTexts, user \in {u \in Users : u.role = "AGENT"},
      now \in {1},
      summary \in {None} \cup {Some(text) : text \in SearchSummaries} }

InitSearch ==
  /\ notes \in UNION { [1..k -> SearchRows] : k \in 0..MaxRows }
  /\ calls = <<>>
  /\ jobs = <<>>
  /\ runs = EmptyBag
  /\ ever_done = {n \in NoteIds : notes[n].summary # None}
  /\ resp = NoResp
  /\ listing = None
  /\ users = <<>>
  /\ signups = <<>>
  /\ mock = <<>>

CreateSearchable ==
  /\ Len(notes) < MaxRows
  /\ \E user \in Users, raw_text \in SearchTexts, now \in Clock :
       CreateNote(user, raw_text, now)

ListFiltered ==
  \E user \in Users, filters \in {None} \cup SearchFilters :
    ListNotes(user, filters)

NextSearch == CreateSearchable \/ ListFiltered

SpecSearch == InitSearch /\ [][NextSearch]_vars

\* The paginated list requests, as GET /notes/ makes them (a filters object
\* always, here without a condition or with a date), while notes are
\* inserted: up to MaxListed notes of the two agents, one insert time each.
PageFilters ==
  { NoteFilters(None, None, None, None), NoteFilters(None, None, Some(2), None) }

CreateListed ==
  /\ Len(notes) < MaxListed
  /\ \E user \in {u \in Users : u.role = "AGENT"}, raw_text \in RawTexts,
        now \in Clock :
       CreateNote(user, raw_text, now)

ListPage ==
  \/ \E user \in Users, page \in 1..MaxPage, size \in 1..MaxSize,
        filters \in PageFilters :
       /\ size <= MaxPageSize
       /\ CountNotes(user, PaginationParams(page, size), filters)
  \/ PageNotes

NextPages == CreateListed \/ ListPage

SpecPages == Init /\ [][NextPages]_vars

\* A client that reads a list page by page: after the response to page p it
\* asks for page p + 1 with the same size and filters.  The record of the
\* request keeps the items of page p and the number of rows the table had.
CountNextPage ==
  /\ listing = None
  /\ resp # NoResp
  /\ resp.op = "get_notes"
  /\ resp.pagination # None
  /\ resp.pagination[1].page < MaxPage
  /\ LET next == PaginationParams(resp.pagination[1].page + 1,
                                  resp.pagination[1].size)
     IN listing' =
          Some([ user |-> resp.user, pagination |-> next,
                 filters |-> resp.filters,
                 total |-> Cardinality(Matching(notes, resp.user, resp.filters)),
                 after |-> resp.result[2].items,
                 rows |-> Len(notes) ])
  /\ resp' = NoResp
  /\ UNCHANGED <<notes, calls, jobs, runs, ever_done, users, signups, mock>>

CreateScrolled ==
  /\ Len(notes) < MaxListed
  /\ \E user \in Callers, raw_text \in RawTexts, now \in Clock :
       CreateNote(user, raw_text, now)

ListFirstPage ==
  \E user \in Callers, size \in 1..MaxSize, filters \in PageFilters :
    /\ size <= MaxPageSize
    /\ CountNotes(user, PaginationParams(1, size),
                  filters)

NextScroll == CreateScrolled \/ ListFirstPage \/ CountNextPage \/ PageNotes

SpecScroll == Init /\ [][NextScroll]_vars

\* NoteRepository.update_note_status, called with any arguments on any
\* table of up to MaxNotes rows.  The session that makes the call holds the
\* note as the table has it (it loads it in the call) or as it was inserted
\* (the session of create_note, which loaded the note at the insert; what
\* other sessions committed since -- a status, a summary, a job id -- is not
\* in it).
UpdateRows ==
  { [ Note(raw_text, user.id, 1) EXCEPT !.status = status,
                                        !.summary = summary,
                                        !.job_id = job_id ] :
      raw_text \in RawTexts, user \in Callers,
      status \in {"queued", "processing"},
      summary \in {None, Some("first summary")},
      job_id \in {None, Some(JobId(1))} }

InitUpdate ==
  /\ notes \in UNION { [1..k -> UpdateRows] : k \in 0..MaxNotes }
  /\ calls = <<>>
  /\ jobs = <<>>
  /\ runs = EmptyBag
  /\ ever_done = {n \in NoteIds : notes[n].status = "done"}
  /\ resp = NoResp
  /\ listing = None
  /\ users = <<>>
  /\ signups = <<>>
  /\ mock = <<>>

\* update_note_status(note_id, status, summary, job_id): select, assign,
\* commit, refresh; returns the refreshed note, or None when no row has the
\* id.
UpdateNoteStatus(note_id, held, status, summary, job_id) ==
  /\ Write(update_note_status(notes, held, note_id, status, summary, job_id))
  /\ resp' = [ op |-> "update_note_status", note_id |-> note_id,
               held |-> held, status |-> status, summary |-> summary,
               job_id |-> job_id,
               result |-> IF note_id \in NoteIds
                          THEN Some(Loaded(notes'[note_id]))
                          ELSE None ]
  /\ UNCHANGED <<calls, jobs, runs, listing, users,
               signups, mock>>

\* The status arguments of the calls in create_note: the status the session
\* holds for the note it inserted, and failed.
UpdateStatuses == {"queued", "failed"}

\* (summary, job_id) arguments: absent, empty, one given, both given.
UpdateArguments ==
  { <<None, None>>, <<Some(""), Some("")>>,
    <<Some("second summary"), None>>, <<None, Some(JobId(2))>>,
    <<Some(""), Some(JobId(2))>>, <<Some("second summary"), Some(JobId(2))>> }

UpdateExisting ==
  \E n \in NoteIds, status \in UpdateStatuses, given \in UpdateArguments :
    \E held \in {Loaded(notes[n]),
                 Loaded(Note(notes[n].raw_text, notes[n].owner_id,
                             notes[n].created_at))} :
      UpdateNoteStatus(n, held, status, given[1], given[2])

UpdateAbsent ==
  \E n \in StrayIds, status \in UpdateStatuses, given \in UpdateArguments :
    UpdateNoteStatus(n, Expired, status, given[1], given[2])

NextUpdate == UpdateExisting \/ UpdateAbsent

SpecUpdate == InitUpdate /\ [][NextUpdate]_vars

\* updated_at = Column(DateTime, onupdate=func.now()): the column has no
\* default, so it is null after the insert, and every UPDATE statement of
\* the row sets it to now(), the time of the transaction.  A commit that
\* finds no attribute changed sends no UPDATE.
StampedNote(row, updated_at) ==
  [ f \in DOMAIN row \cup {"updated_at"} |->
      IF f = "updated_at" THEN updated_at ELSE row[f] ]

\* A column stamped by the application on every call instead.
onupdate_always(row, obj, assigned, now) ==
  [ Flush(row, obj, assigned) EXCEPT !.updated_at = Some(now) ]

onupdate(row, obj, assigned, now) ==
  IF \E f \in DOMAIN assigned : assigned[f] # obj[f]
  THEN [ Flush(row, obj, assigned) EXCEPT !.updated_at = Some(now) ]
  ELSE row

\* update_note_status calls one after the other on notes as inserted; each
\* call runs in a transaction that begins after the one before it ended.
InitStamp ==
  /\ notes \in UNION { [1..k -> { StampedNote(Note(raw_text, user.id, 1), None) :
                                    raw_text \in RawTexts, user \in Callers }] :
                       k \in 1..MaxNotes }
  /\ calls = <<>>
  /\ jobs = <<>>
  /\ runs = EmptyBag
  /\ ever_done = {}
  /\ resp = NoResp
  /\ listing = None
  /\ users = <<>>
  /\ signups = <<>>
  /\ mock = <<>>

LatestStamp ==
  LET stamps == {0} \cup { notes[n].updated_at[1] :
                            n \in {m \in NoteIds : notes[m].updated_at # None} }
  IN CHOOSE t \in stamps : \A u \in stamps : u <= t

\* now() of the next transaction.
StampClock == {t \in {LatestStamp + 1} : t <= MaxStamps}

UpdateStamped(n, held, status, summary, job_id, now) ==
  /\ Write([ notes EXCEPT ![n] =
               onupdate(notes[n], held,
                        StatusAssignment(held, status, summary, job_id), now) ])
  /\ resp' = [ op |-> "update_note_status", note_id |-> n,
               held |-> held, status |-> status, summary |-> summary,
               job_id |-> job_id, now |-> now,
               result |-> Some(Loaded(notes'[n])) ]
  /\ UNCHANGED <<calls, jobs, runs, listing, users, signups, mock>>

NextStamp ==
  \E n \in NoteIds, status \in UpdateStatuses, given \in UpdateArguments,
     now \in StampClock :
    \E held \in {Loaded(notes[n]),
                 Loaded(Note(notes[n].raw_text, notes[n].owner_id,
                             notes[n].created_at))} :
      UpdateStamped(n, held, status, given[1], given[2], now)

SpecStamp == InitStamp /\ [][NextStamp]_vars

\* generate_t5_summary applied to the raw_text of the notes of any table of
\* up to MaxRows rows, with the model available or not: texts of the API
\* examples and tests, with and without the words "important", "urgent" and
\* "meeting", one of them longer than TruncateAt characters.
SummaryTexts ==
  { "Important meeting notes about quarterly review",
    "Urgent: call the client",
    "Meeting notes from today",
    "Random thoughts and ideas",
    "The supplier moved the delivery to Friday, so the URGENT orders " \o
    "have to be packed and labelled before the lorry arrives at noon." }

InitSummary ==
  /\ notes \in UNION { [1..k -> { [ Note(raw_text, user.id, 1) EXCEPT
                                     !.status = "processing" ] :
                                   raw_text \in SummaryTexts,
                                   user \in Callers }] : k \in 0..MaxRows }
  /\ calls = <<>>
  /\ jobs = <<>>
  /\ runs = EmptyBag
  /\ ever_done = {}
  /\ resp = NoResp
  /\ listing = None
  /\ users = <<>>
  /\ signups = <<>>
  /\ mock = <<>>

\* summary = generate_t5_summary(note.raw_text) in a worker run.
SummarizeText(n, t5_ok) ==
  /\ resp' = [ op |-> "generate_t5_summary", note_id |-> n,
               text |-> notes[n].raw_text, t5_ok |-> t5_ok,
               summary |-> generate_t5_summary(notes[n].raw_text, t5_ok) ]
  /\ UNCHANGED <<notes, calls, jobs, runs, ever_done, listing, users,
               signups, mock>>

NextSummary == \E n \in NoteIds, t5_ok \in BOOLEAN : SummarizeText(n, t5_ok)

SpecSummary == InitSummary /\ [][NextSummary]_vars

\* The priority style of the API's example response: the summary begins
\* "Priority summary: ".
PriorityStyle(summary) ==
  LET prefix == "Priority summary: "
  IN Len(summary) >= Len(prefix) /\ SubSeq(summary, 1, Len(prefix)) = prefix

\* ------------------------------------------------- UserService.create_user
\* Signups of up to MaxSignups callers, each in a session of its own, with
\* emails that collide.
Emails == {"user@example.com", "admin@example.com"}

\* UserResponse.model_validate(user): id, email, role.
UserResponse(id, row) == [ id |-> id, email |-> row.email, role |-> row.role ]

\* POST /users/signup reaches UserRepository.create_user: User(...) is
\* built and added to the session.
Signup(email, role) ==
  /\ Len(signups) < MaxSignups
  /\ signups' = Append(signups, [ email |-> email, role |-> role,
                                  pc |-> "insert", result |-> Pending ])
  /\ UNCHANGED <<notes, calls, jobs, runs, ever_done, resp, listing, users, mock>>

\* The signups whose INSERT is done and whose transaction is open.
Uncommitted == { t \in DOMAIN signups : signups[t].pc = "commit" }

\* A users table without the unique index on email: the INSERT goes through
\* whatever the table holds.
InsertUserUnchecked(s) ==
  /\ s \in DOMAIN signups
  /\ signups[s].pc = "insert"
  /\ signups' = [signups EXCEPT ![s].pc = "commit"]
  /\ UNCHANGED <<notes, calls, jobs, runs, ever_done, resp, listing, users, mock>>

\* db.commit(), first part: the flush sends the INSERT.  The unique index on
\* users.email makes it wait while another transaction holds an uncommitted
\* row with the email, and fail with IntegrityError when a committed row has
\* it: the except clause rolls back and raises UserAlreadyExistsError.
InsertUser(s) ==
  /\ s \in DOMAIN signups
  /\ signups[s].pc = "insert"
  /\ \A t \in Uncommitted : signups[t].email # signups[s].email
  /\ signups' =
       IF \E u \in DOMAIN users : users[u].email = signups[s].email
       THEN [signups EXCEPT ![s].pc = "raised",
                            ![s].result = Raised(UserAlreadyExistsError)]
       ELSE [signups EXCEPT ![s].pc = "commit"]
  /\ UNCHANGED <<notes, calls, jobs, runs, ever_done, resp, listing, users, mock>>

\* db.commit(), second part: COMMIT; then db.refresh(user) and the response.
CommitUser(s) ==
  /\ s \in DOMAIN signups
  /\ signups[s].pc = "commit"
  /\ users' = Append(users, [ email |-> signups[s].email,
                              role |-> signups[s].role ])
  /\ signups' = [signups EXCEPT
       ![s].pc = "returned",
       ![s].result = Returned(UserResponse(Len(users) + 1, users'[Len(users) + 1]))]
  /\ UNCHANGED <<notes, calls, jobs, runs, ever_done, resp, listing, mock>>

NextSignup ==
  \/ \E email \in Emails, role \in UserRole : Signup(email, role)
  \/ \E s \in DOMAIN signups : InsertUser(s)
  \/ \E s \in DOMAIN signups : CommitUser(s)

SpecSignup == Init /\ [][NextSignup]_vars

C2_AsStated ==
  \A n \in CallIds :
    calls[n].enqueue = "Exception" /\ calls[n].pc \in {"returned", "raised"} =>
      /\ calls[n].result # Pending
      /\ calls[n].result[1] = "returned"
      /\ notes[n].status = "failed"
      /\ calls[n].result[2].status = "failed"

\* C2: when the submission raised an error other than redis.ConnectionError
\* and the status update that follows (its write and its refresh) succeeded,
\* the call returns a view without raising, the stored note has status
\* failed and the view shows status failed; whether or not the update
\* succeeded, the stored status is queued or failed.
C2_OtherErrorReturnsFailed ==
  \A n \in CallIds :
    calls[n].enqueue = "Exception" /\ calls[n].pc \in {"returned", "raised"} =>
      /\ notes[n].status \in {"queued", "failed"}
      /\ ~calls[n].update_failed =>
           /\ calls[n].result # Pending
           /\ calls[n].result[1] = "returned"
           /\ notes[n].status = "failed"
           /\ calls[n].result[2].status = "failed"

C2_Witness ==
  \E n \in CallIds :
    /\ calls[n].enqueue = "Exception"
    /\ calls[n].pc = "returned"
    /\ ~calls[n].update_failed
    /\ notes[n].status = "failed"
    /\ calls[n].result = Returned(NoteResponse(notes, n, Loaded(notes[n])))

\* C3 as stated: when the submission succeeded, at the return of the call
\* the stored job_id is the id the queue returned and the status is queued.
C3_AsStated ==
  [][ \A n \in CallIds :
        /\ calls[n].enqueue = "enqueued"
        /\ calls[n].pc # "returned"
        /\ calls'[n].pc = "returned"
        => /\ notes'[n].job_id = calls'[n].job
           /\ notes'[n].status = "queued" ]_vars

\* C3: when the submission succeeded and the update recording the job id
\* (its write and its refresh) succeeded, at the return of the call the
\* stored job_id is the id the queue returned, and the stored status is
\* queued unless a worker run of that note's job has started by then.
C3_JobIdRecorded ==
  [][ \A n \in CallIds :
        /\ calls[n].pc = "refresh_job"
        /\ calls'[n].pc = "returned"
        => /\ calls[n].enqueue = "enqueued"
           /\ notes'[n].job_id = Some(JobId(n))
           /\ notes'[n].job_id = calls'[n].job
           /\ \/ notes'[n].status = "queued"
              \/ \E run \in BagToSet(runs) : run.note_id = n ]_vars

C3_Witness ==
  \E n \in CallIds :
    /\ calls[n].enqueue = "enqueued"
    /\ calls[n].pc = "returned"
    /\ ~calls[n].update_failed
    /\ notes[n].job_id = calls[n].job
    /\ notes[n].status = "queued"
    /\ calls[n].result[2].status = "queued"

\* C4: every view create_note returns has status queued or failed, never
\* processing or done, whatever worker runs on the same note interleave.
C4_ReturnsQueuedOrFailed ==
  \A n \in CallIds :
    calls[n].pc = "returned" =>
      calls[n].result[2].status \in {"queued", "failed"}

\* C5: whatever the note's status, get_note by the note's owner returns the
\* note, get_note by an ADMIN returns the note whoever owns it, and get_note
\* by an AGENT who is not the owner raises NoteNotFoundError.
C5_GetNoteVisibility ==
  resp # NoResp /\ resp.op = "get_note" /\ resp.note_id \in NoteIds =>
    LET row == notes[resp.note_id]
        view == [ id |-> resp.note_id, raw_text |-> row.raw_text,
                  summary |-> row.summary, status |-> row.status,
                  created_at |-> row.created_at ]
    IN /\ resp.user.id = row.owner_id => resp.result = Returned(view)
       /\ resp.user.role = "ADMIN" => resp.result = Returned(view)
       /\ resp.user.role = "AGENT" /\ resp.user.id # row.owner_id =>
            resp.result = Raised(NoteNotFoundError)

C5_Witness ==
  /\ resp # NoResp
  /\ resp.op = "get_note"
  /\ resp.note_id \in NoteIds
  /\ resp.user.role = "ADMIN"
  /\ notes[resp.note_id].owner_id # resp.user.id
  /\ notes[resp.note_id].status = "processing"
  /\ resp.result[1] = "returned"
  /\ resp.result[2].id = resp.note_id

\* C6: for an AGENT, get_note(id) answers the same in the store where a note
\* with that id exists but belongs to another user as in the store that
\* differs only by not having that note: NoteNotFoundError in both.
C6_AbsentOrInaccessible ==
  resp # NoResp /\ resp.op = "get_note" /\ resp.user.role = "AGENT"
  /\ resp.note_id \in NoteIds /\ notes[resp.note_id].owner_id # resp.user.id =>
    LET without == [n \in NoteIds \ {resp.note_id} |-> notes[n]]
    IN /\ resp.result = get_note(without, resp.note_id, resp.user)
       /\ resp.result = Raised(NoteNotFoundError)

C6_Witness ==
  /\ resp # NoResp
  /\ resp.op = "get_note"
  /\ resp.user.role = "AGENT"
  /\ resp.note_id \in NoteIds
  /\ notes[resp.note_id].owner_id # resp.user.id
  /\ resp.result = Raised(NoteNotFoundError)

\* C7: after any create_note calls by any users, get_notes without filters
\* reports for an AGENT a total equal to the number of notes that AGENT owns
\* and returns only notes that AGENT owns, and reports for an ADMIN a total
\* equal to the number of all notes of the store.
C7_ListTotals ==
  resp # NoResp /\ resp.op = "get_notes" =>
    LET body == resp.result[2]
        owned == {n \in NoteIds : notes[n].owner_id = resp.user.id}
    IN /\ resp.result[1] = "returned"
       /\ resp.user.role = "AGENT" =>
            /\ body.total = Cardinality(owned)
            /\ \A i \in DOMAIN body.items : body.items[i].id \in owned
       /\ resp.user.role = "ADMIN" => body.total = Len(notes)

C7_Witness ==
  /\ resp # NoResp
  /\ resp.op = "get_notes"
  /\ resp.user.role = "AGENT"
  /\ DOMAIN calls # {}
  /\ Len(notes) = 2
  /\ resp.result[2].total = 1
  /\ Len(resp.result[2].items) = 1

\* C8: with one worker taking the deliveries of a job in sequence, the final
\* commit of every summarize_note_task run that raised nothing leaves the
\* note with status done and a non-null summary, after the first run and
\* after every later run; and no step of a run adds or removes a row or a
\* job, or changes anything but the status and the summary of its own note.
C8_RerunLeavesDone ==
  [][ \A run \in ActiveRuns :
        /\ run.pc = "write_done" /\ Step(run, Finished(run)) =>
             /\ notes'[run.note_id].status = "done"
             /\ notes'[run.note_id].summary # None
        /\ (\E next \in BagToSet(runs') : next # run /\ Step(run, next)) =>
             /\ jobs' = jobs
             /\ DOMAIN notes' = DOMAIN notes
             /\ \A n \in NoteIds :
                  /\ n # run.note_id => notes'[n] = notes[n]
                  /\ notes'[n] = [notes[n] EXCEPT !.status = notes'[n].status,
                                                  !.summary = notes'[n].summary]
    ]_vars

C8_Witness ==
  \E n \in NoteIds :
    /\ CopiesIn(Run("finished", n, Expired, None, FALSE), runs) >= 2
    /\ notes[n].status = "done"
    /\ notes[n].summary # None

\* C9 as stated: a status changes only from queued to processing and from
\* processing to done or failed in a step of the worker, and from queued to
\* failed in a step of the service.
C9_AsStated ==
  [][ \A n \in NoteIds :
        notes'[n].status # notes[n].status =>
          \/ /\ runs' # runs
             /\ <<notes[n].status, notes'[n].status>> \in
                  { <<"queued", "processing">>, <<"processing", "done">>,
                    <<"processing", "failed">> }
          \/ /\ calls' # calls
             /\ <<notes[n].status, notes'[n].status>> \in
                  { <<"queued", "failed">> } ]_vars

\* C9: a status never changes to queued and never from queued to done.  The
\* worker changes a status to processing (from queued, done or failed), to
\* done (from processing or failed) and to failed (from queued, processing
\* or done); the service changes a status to failed only (from queued,
\* processing or done).
C9_StatusSteps ==
  [][ \A n \in NoteIds :
        notes'[n].status # notes[n].status =>
          \/ /\ runs' # runs /\ calls' = calls
             /\ <<notes[n].status, notes'[n].status>> \in
                  { <<"queued", "processing">>, <<"done", "processing">>,
                    <<"failed", "processing">>,
                    <<"processing", "done">>, <<"failed", "done">>,
                    <<"queued", "failed">>, <<"processing", "failed">>,
                    <<"done", "failed">> }
          \/ /\ calls' # calls /\ runs' = runs
             /\ <<notes[n].status, notes'[n].status>> \in
                  { <<"queued", "failed">>, <<"processing", "failed">>,
                    <<"done", "failed">> } ]_vars

C9_Witness ==
  \E n \in NoteIds :
    /\ n \in ever_done
    /\ notes[n].status = "processing"
    /\ \E run \in ActiveRuns : run.note_id = n /\ run.pc = "summarize"

\* C10: in every reachable state each note's status is one of queued,
\* processing, done, failed, and a note's summary is non-null only if the
\* note's status is done or has been done in an earlier state.
C10_StatusAndSummary ==
  \A n \in NoteIds :
    /\ notes[n].status \in NoteStatus
    /\ notes[n].summary # None => n \in ever_done

C10_Witness ==
  \E n \in NoteIds :
    /\ notes[n].summary # None
    /\ notes[n].status = "failed"
    /\ n \in ever_done

\* C11: right after the insert of create_note, before any enqueue or worker
\* step, the new note has status queued, summary null and job_id null, and
\* its id is the id of no note that was in the store.
C11_InsertedQueued ==
  [][ Len(notes') # Len(notes) =>
        LET id == Len(notes')
        IN /\ DOMAIN notes' = NoteIds \cup {id}
           /\ id \notin NoteIds
           /\ \A n \in NoteIds : notes'[n] = notes[n]
           /\ notes'[id].status = "queued"
           /\ notes'[id].summary = None
           /\ notes'[id].job_id = None
           /\ calls'[id].pc = "enqueue" ]_vars

C11_Witness ==
  \E id \in CallIds :
    /\ calls[id].pc = "enqueue"
    /\ NoteIds \ {id} # {}
    /\ \E n \in NoteIds \ {id} : notes[n].status = "done"
    /\ notes[id].status = "queued"
    /\ notes[id].summary = None
    /\ notes[id].job_id = None

\* C12: when a step of a worker run raised, the run loads the note again
\* and, the note being present and the recovery commit succeeding, the
\* note's status is failed when the run ends.
C12_RecoveryLeavesFailed ==
  [][ \A run \in ActiveRuns :
        RecoverWrite(run, TRUE) => notes'[run.note_id].status = "failed" ]_vars

\* C13: a worker run for a note id the store does not have returns without
\* raising and writes nothing: the load ends the run at once, a run whose
\* load failed ends after its second load, and no step of such a run
\* changes a note, a field or a job.
C13_AbsentNoteUntouched ==
  [][ /\ \A n \in StrayIds :
           /\ StartRun(n, TRUE) =>
                /\ runs' = runs (+) SetToBag({Run("finished", n, Expired, None, FALSE)})
                /\ notes' = notes /\ jobs' = jobs
           /\ StartRun(n, FALSE) => notes' = notes /\ jobs' = jobs
      /\ \A run \in ActiveRuns :
           run.note_id \notin NoteIds =>
             \A next \in BagToSet(runs') :
               next # run /\ Step(run, next) =>
                 next = Finished(run) /\ notes' = notes /\ jobs' = jobs ]_vars

C13_Witness ==
  /\ notes # <<>>
  /\ \E n \in StrayIds :
       /\ BagIn(Run("finished", n, Expired, None, FALSE), runs)
       /\ BagIn(Run("finished", n, Expired, None, TRUE), runs)

\* C14: when the status update create_note issues after a failed job
\* submission itself fails, that failure is not propagated: after a
\* redis.ConnectionError the caller receives ServiceUnavailableError, and
\* after any other failure create_note still returns the note.
C14_BookkeepingFailureSwallowed ==
  \A n \in CallIds :
    calls[n].update_failed =>
      /\ calls[n].enqueue = "ConnectionError" =>
           calls[n].result = Raised(ServiceUnavailableError)
      /\ calls[n].enqueue # "ConnectionError" =>
           calls[n].result[1] = "returned"

\* C15: every create_note call whose insert succeeded leaves exactly one new
\* note in the store whatever the outcome of the job submission, and no step
\* of service or worker removes a note: the set of note ids only grows.
C15_NotesOnlyGrow ==
  [][ /\ NoteIds \subseteq DOMAIN notes'
      /\ DOMAIN calls' \ CallIds = DOMAIN notes' \ NoteIds
      /\ Cardinality(DOMAIN notes' \ NoteIds) <= 1
      /\ \A n \in DOMAIN calls' : n \in DOMAIN notes' ]_vars

C15_Witness ==
  \E n \in CallIds :
    /\ calls[n].enqueue = "ConnectionError"
    /\ calls[n].pc = "raised"
    /\ calls[n].update_failed
    /\ n \in NoteIds
    /\ Len(notes) = Cardinality(CallIds)

\* C16: a list request without pagination returns every note that the role
\* scope and the filters select, once each, in one response with page 1,
\* pages 1 and size equal to the total, the empty result included.
C16_SinglePage ==
  resp # NoResp /\ resp.op = "get_notes" /\ resp.pagination = None =>
    LET body == resp.result[2]
        f == resp.filters
        expected ==
          { n \in NoteIds :
              /\ resp.user.role = "AGENT" => notes[n].owner_id = resp.user.id
              /\ f # None /\ f.search # None =>
                   \/ ilike(notes[n].raw_text, <<"%">> \o Lower(f.search[1]) \o <<"%">>)
                   \/ /\ notes[n].summary # None
                      /\ ilike(notes[n].summary[1],
                            <<"%">> \o Lower(f.search[1]) \o <<"%">>)
              /\ f # None /\ f.status # None => notes[n].status = f.status[1]
              /\ f # None /\ f.created_after # None =>
                   notes[n].created_at >= f.created_after[1]
              /\ f # None /\ f.created_before # None =>
                   notes[n].created_at <= f.created_before[1] }
    IN /\ resp.result[1] = "returned"
       /\ { body.items[i].id : i \in DOMAIN body.items } = expected
       /\ Len(body.items) = Cardinality(expected)
       /\ body.total = Cardinality(expected)
       /\ body.page = 1
       /\ body.pages = 1
       /\ body.size = body.total

\* An agent lists with a search term and a status: of two own notes one is
\* returned, the other is not.
C16_Witness ==
  /\ resp # NoResp
  /\ resp.op = "get_notes"
  /\ resp.pagination = None
  /\ resp.user.role = "AGENT"
  /\ resp.filters = NoteFilters(Some("Meeting"), Some("done"), Some(1), Some(2))
  /\ Len(notes) = 2
  /\ \A n \in NoteIds : notes[n].owner_id = resp.user.id
  /\ resp.result[2].total = 1
  /\ resp.result[2].size = 1
  /\ Len(resp.result[2].items) = 1

\* C17 as stated: a paginated list response over the T notes that the role
\* scope and the filters select has min(size, max(0, T - (page-1)*size))
\* items, total T and pages the ceiling of T / size.
C17_AsStated ==
  resp # NoResp /\ resp.op = "get_notes" /\ resp.pagination # None =>
    LET body == resp.result[2]
        p == resp.pagination[1].page
        s == resp.pagination[1].size
        f == resp.filters
        T == Cardinality(
               { n \in NoteIds :
                   /\ resp.user.role = "AGENT" =>
                        notes[n].owner_id = resp.user.id
                   /\ f.created_after # None =>
                        notes[n].created_at >= f.created_after[1] })
        rest == IF T - (p - 1) * s > 0 THEN T - (p - 1) * s ELSE 0
    IN /\ Len(body.items) = IF s < rest THEN s ELSE rest
       /\ body.total = T
       /\ body.pages * s >= T
       /\ (body.pages - 1) * s < T

\* C17: when the count that the first query of a paginated list request
\* took is still the number T of the notes that the role scope and the
\* filters select at its second query, the response has
\* min(size, max(0, T - (page-1)*size)) items, total T and pages the ceiling
\* of T / size, for every page, also past the end.
C17_PageArithmetic ==
  [][ listing # None /\ listing' = None =>
        LET body == resp'.result[2]
            user == listing[1].user
            p == listing[1].pagination.page
            s == listing[1].pagination.size
            f == listing[1].filters
            T == Cardinality(
                   { n \in NoteIds :
                       /\ user.role = "AGENT" => notes[n].owner_id = user.id
                       /\ f.created_after # None =>
                            notes[n].created_at >= f.created_after[1] })
            rest == IF T - (p - 1) * s > 0 THEN T - (p - 1) * s ELSE 0
        IN listing[1].total = T =>
             /\ resp'.op = "get_notes"
             /\ resp'.user = user
             /\ resp'.pagination = Some(listing[1].pagination)
             /\ resp'.result[1] = "returned"
             /\ Len(body.items) = IF s < rest THEN s ELSE rest
             /\ body.total = T
             /\ body.page = p
             /\ body.size = s
             /\ body.pages * s >= T
             /\ (body.pages - 1) * s < T ]_vars

\* Page 1 of size 3 over the five notes of an agent, a note of another agent
\* also stored: 3 items, total 5, pages 2.
C17_Witness ==
  /\ resp # NoResp
  /\ resp.op = "get_notes"
  /\ resp.user.role = "AGENT"
  /\ resp.pagination = Some(PaginationParams(1, 3))
  /\ resp.filters = NoteFilters(None, None, None, None)
  /\ Cardinality({n \in NoteIds : notes[n].owner_id = resp.user.id}) = 5
  /\ Len(resp.result[2].items) = 3
  /\ resp.result[2].total = 5
  /\ resp.result[2].pages = 2

\* C18: a list request with a search term (and no other filter) returns
\* exactly the notes visible to the caller whose raw_text, or whose summary
\* when it has one, contains the term as a substring, compared without
\* regard to case.
C18_SearchIsSubstring ==
  /\ resp # NoResp /\ resp.op = "get_notes" /\ resp.filters # None
  /\ Truthy(resp.filters.search) /\ resp.filters.status = None
  /\ resp.filters.created_after = None /\ resp.filters.created_before = None
  => LET body == resp.result[2]
         term == resp.filters.search[1]
         visible == { n \in NoteIds :
                        resp.user.role = "AGENT" =>
                          notes[n].owner_id = resp.user.id }
     IN { body.items[i].id : i \in DOMAIN body.items } =
          { n \in visible :
              \/ Contains(notes[n].raw_text, term)
              \/ /\ notes[n].summary # None
                 /\ Contains(notes[n].summary[1], term) }

\* C19 as stated: update_note_status on an existing note sets the stored
\* status to the given value, overwrites summary (job_id) when the argument
\* is non-empty and leaves it unchanged otherwise, and never changes
\* raw_text, owner_id or created_at.
C19_AsStated ==
  [][ resp' # NoResp /\ resp'.op = "update_note_status"
      /\ resp'.note_id \in NoteIds =>
        LET row == notes[resp'.note_id]
            new == notes'[resp'.note_id]
        IN /\ new.status = resp'.status
           /\ new.summary = IF Truthy(resp'.summary) THEN resp'.summary
                            ELSE row.summary
           /\ new.job_id = IF Truthy(resp'.job_id) THEN resp'.job_id
                           ELSE row.job_id
           /\ new.raw_text = row.raw_text
           /\ new.owner_id = row.owner_id
           /\ new.created_at = row.created_at ]_vars

\* C19: update_note_status on an existing note stores the given status,
\* and a non-empty summary (job_id) argument, unless the value equals the
\* one the calling session already holds for the note: the stored value is
\* then left as it is, also when another session has changed it.  With an
\* absent or empty summary (job_id) argument the stored value is left
\* unchanged; raw_text, owner_id, created_at and the other notes never
\* change; the call returns the note as stored.
C19_PartialUpdate ==
  [][ resp' # NoResp /\ resp'.op = "update_note_status"
      /\ resp'.note_id \in NoteIds =>
        LET n == resp'.note_id
            row == notes[n]
            new == notes'[n]
            held == resp'.held
        IN /\ new.status = IF resp'.status # held.status THEN resp'.status
                           ELSE row.status
           /\ new.summary =
                IF Truthy(resp'.summary) /\ resp'.summary # held.summary
                THEN resp'.summary ELSE row.summary
           /\ new.job_id =
                IF Truthy(resp'.job_id) /\ resp'.job_id # held.job_id
                THEN resp'.job_id ELSE row.job_id
           /\ new.raw_text = row.raw_text
           /\ new.owner_id = row.owner_id
           /\ new.created_at = row.created_at
           /\ DOMAIN notes' = NoteIds
           /\ \A m \in NoteIds \ {n} : notes'[m] = notes[m]
           /\ resp'.result = Some(Loaded(new)) ]_vars

\* A call with status failed, an empty summary and a job id, on a note that
\* has a summary: the status and the job id are stored, the summary stays.
C19_Witness ==
  /\ resp # NoResp
  /\ resp.op = "update_note_status"
  /\ resp.note_id \in NoteIds
  /\ resp.status = "failed"
  /\ resp.summary = Some("")
  /\ resp.job_id = Some(JobId(2))
  /\ notes[resp.note_id].status = "failed"
  /\ notes[resp.note_id].summary = Some("first summary")
  /\ notes[resp.note_id].job_id = Some(JobId(2))

\* C20: the summary computed from a raw_text is in the priority style when
\* the text contains "important" or "urgent" (in any case) and in another
\* style when it does not, and the same raw_text gives the same summary
\* whether or not the model is available.
C20_ClassifiedSummary ==
  resp # NoResp /\ resp.op = "generate_t5_summary" =>
    /\ Contains(resp.text, "important") \/ Contains(resp.text, "urgent")
         <=> PriorityStyle(resp.summary)
    /\ \A t5_ok \in BOOLEAN :
         generate_t5_summary(resp.text, t5_ok) = resp.summary

\* C21: no two users have the same email, whatever the interleaving of the
\* signups; a signup whose email a user already has fails with
\* UserAlreadyExistsError and leaves the users unchanged, and a signup
\* that fails does so for that reason only.
C21_UniqueEmail ==
  /\ [](\A u, v \in DOMAIN users : users[u].email = users[v].email => u = v)
  /\ [][ \A s \in DOMAIN signups :
           /\ signups[s].pc = "insert"
              /\ signups'[s].pc # "insert"
              /\ (\E u \in DOMAIN users : users[u].email = signups[s].email)
              => /\ signups'[s].pc = "raised"
                 /\ signups'[s].result = Raised(UserAlreadyExistsError)
                 /\ users' = users
           /\ signups'[s].pc = "raised" /\ signups[s].pc # "raised"
              => /\ users' = users
                 /\ \E u \in DOMAIN users : users[u].email = signups[s].email
           /\ signups'[s].pc = "returned" /\ signups[s].pc # "returned"
              => /\ Len(users') = Len(users) + 1
                 /\ \A u \in DOMAIN users : users'[u] = users[u]
                 /\ users'[Len(users')].email = signups[s].email ]_vars

\* Two signups with one email ran at the same time (the one made first was
\* overtaken by the other): one user has the email, the signup made first
\* raised UserAlreadyExistsError.
C21_Witness ==
  /\ Len(signups) >= 2
  /\ signups[1].email = signups[2].email
  /\ signups[1].pc = "raised"
  /\ signups[1].result = Raised(UserAlreadyExistsError)
  /\ signups[2].pc = "returned"
  /\ Cardinality({u \in DOMAIN users : users[u].email = signups[1].email}) = 1

\* C22: the write by which create_note records the job id leaves the
\* stored status (and summary) of the note as it is, also when a worker has
\* written processing or done since the job was submitted: the status is
\* not set back to queued, and the job id is stored.
C22_JobWriteKeepsStatus ==
  [][ \A n \in CallIds :
        calls[n].pc = "record_job" /\ calls'[n].pc = "refresh_job" =>
          /\ notes'[n].status = notes[n].status
          /\ notes'[n].summary = notes[n].summary
          /\ notes'[n].job_id = calls[n].job
          /\ notes'[n].job_id # None ]_vars

\* The job id is recorded on a note that a worker has brought to done, while
\* the session of create_note still holds the status queued.
C22_Witness ==
  \E n \in CallIds :
    /\ calls[n].pc = "refresh_job"
    /\ calls[n].note.status = "queued"
    /\ notes[n].status = "done"
    /\ notes[n].summary # None
    /\ notes[n].job_id = calls[n].job
    /\ notes[n].job_id # None

\* C23: when the job of a note was delivered more than once and every run
\* of it has ended without an exception, whatever the interleaving of the
\* runs, the note has status done and its summary is one that a single run
\* computes from its raw_text.
C23_RedeliveryEndsDone ==
  \A n \in NoteIds :
    /\ CopiesIn(Run("finished", n, Expired, None, FALSE), runs) >= 2
    /\ \A run \in BagToSet(runs) :
         run.note_id = n => run.pc = "finished" /\ ~run.raised
    => /\ notes[n].status = "done"
       /\ notes[n].summary \in
            { Some(generate_t5_summary(notes[n].raw_text, t5_ok)) :
                t5_ok \in BOOLEAN }

\* Two runs of the job of a note have ended, neither in the except block;
\* the note is done with the summary of the truncation fallback.
C23_Witness ==
  \E n \in NoteIds :
    /\ CopiesIn(Run("finished", n, Expired, None, FALSE), runs) = 2
    /\ ActiveRuns = {}
    /\ notes[n].status = "done"
    /\ notes[n].summary = Some(generate_t5_summary(notes[n].raw_text, FALSE))

C25_DoneHasSummary ==
  /\ [](\A n \in NoteIds : notes[n].status = "done" => notes[n].summary # None)
  /\ [][ \A n \in NoteIds :
           /\ notes[n].status # "done" /\ notes'[n].status = "done"
              => /\ \E run \in ActiveRuns :
                      /\ run.note_id = n
                      /\ run.pc = "write_done"
                      /\ Step(run, Finished(run))
                 /\ notes'[n].summary # None
                 /\ calls' = calls
           /\ notes[n].summary # None => notes'[n].summary # None ]_vars

C25_Witness ==
  \E n \in NoteIds :
    /\ notes[n].status = "done"
    /\ notes[n].summary = Some(generate_t5_summary(notes[n].raw_text, TRUE))
    /\ Run("finished", n, Expired, None, FALSE) \in BagToSet(runs)
    /\ calls[n].pc = "returned"

\* C26: when every submitted job is delivered and every run ends, every note
\* created by create_note eventually has status done or failed, whatever
\* fails during the submission or during the status writes.
C26_EventuallySettled ==
  \A n \in 1..MaxNotes :
    (n \in NoteIds) ~> (n \in NoteIds /\ notes[n].status \in {"done", "failed"})

\* The create_note call for note n has just committed status failed: it is
\* between the commit and the refresh of update_note_status, or it raised
\* ServiceUnavailableError after a status write that did not fail.
ForcedFailed(n) ==
  /\ n \in CallIds
  /\ \/ calls[n].pc = "refresh_failed"
     \/ /\ calls[n].pc = "raised"
        /\ calls[n].enqueue = "ConnectionError"
        /\ ~calls[n].update_failed

\* C27: once create_note has forced the status of a note to failed, the
\* status of that note is failed in every later state.
C27_FailedIsFinal ==
  \A n \in 1..MaxNotes :
    [](ForcedFailed(n) => [](n \in NoteIds /\ notes[n].status = "failed"))

\* C28: the step in which create_note commits status failed for a note is
\* taken only when no job for that note was placed in the queue.
C28_FailedOnlyWithoutJob ==
  [][ \A n \in CallIds :
        ~ForcedFailed(n) /\ ForcedFailed(n)' => n \notin DOMAIN jobs ]_vars

\* C29: a run of summarize_note_task is always at a statement of the handler
\* or has returned, no step takes a run away, and under the fairness of
\* SpecDelivered every run returns: whether its note is missing, a load, the
\* summarization or a commit raised, or the recovery write raised.
C29_RunReturnsNormally ==
  /\ [](\A run \in BagToSet(runs) :
          run.pc \in {"set_processing", "summarize", "write_done",
                      "recover", "recover_write", "finished"})
  /\ [][BagCardinality(runs') >= BagCardinality(runs)]_vars
  /\ \A n \in 1..(MaxNotes + 1) :
       (\E run \in ActiveRuns : run.note_id = n)
         ~> (\A run \in BagToSet(runs) : run.note_id = n => run.pc = "finished")

C29_Witness ==
  /\ ActiveRuns = {}
  /\ \E n \in NoteIds :
       /\ Run("finished", n, Expired, None, TRUE) \in BagToSet(runs)
       /\ notes[n].status = "processing"
  /\ \E n \in StrayIds : Run("finished", n, Expired, None, FALSE) \in BagToSet(runs)

\* C30: a create_note call submits its note once: the outcome of the
\* submission is set in one step taken from the enqueue statement and never
\* changes afterwards, a job for the note is in the queue after that step
\* exactly when the queue accepted it and none was there before, a call that
\* has ended has made its attempt, and no step of a worker and no later step
\* of the service adds a job.
C30_OneSubmission ==
  [][ /\ \A n \in CallIds :
           /\ calls[n].enqueue # ""
              => /\ calls'[n].enqueue = calls[n].enqueue
                 /\ n \in DOMAIN jobs' <=> n \in DOMAIN jobs
           /\ calls[n].enqueue = "" /\ calls'[n].enqueue # ""
              => /\ calls[n].pc = "enqueue"
                 /\ n \notin DOMAIN jobs
                 /\ n \in DOMAIN jobs' <=> calls'[n].enqueue = "enqueued"
                 /\ runs' = runs
           /\ calls'[n].pc \in {"returned", "raised"} => calls'[n].enqueue # ""
      /\ \A n \in DOMAIN calls' \ CallIds :
           calls'[n].enqueue = "" /\ n \notin DOMAIN jobs'
      /\ \A n \in DOMAIN jobs : n \in DOMAIN jobs' /\ jobs'[n] = jobs[n]
      /\ DOMAIN jobs' \subseteq DOMAIN calls' ]_vars

C30_Witness ==
  \E n \in CallIds :
    /\ calls[n].pc = "returned"
    /\ calls[n].enqueue = "Exception"
    /\ n \notin DOMAIN jobs
    /\ notes[n].status = "failed"
    /\ BagToSet(runs) = {}

\* C31: no step of create_note, update_note_status, get_note, get_notes or
\* a worker run removes a note or changes the id, raw_text, owner_id or
\* created_at of a note that is in the store.
C31_ImmutableFields ==
  [][ \A n \in NoteIds :
        /\ n \in DOMAIN notes'
        /\ notes'[n].raw_text = notes[n].raw_text
        /\ notes'[n].owner_id = notes[n].owner_id
        /\ notes'[n].created_at = notes[n].created_at ]_vars

C31_Witness ==
  \E n \in NoteIds :
    /\ notes[n].status = "done"
    /\ notes[n].summary # None
    /\ notes[n].job_id = Some(JobId(n))
    /\ calls[n].pc = "returned"
    /\ resp # NoResp
    /\ resp.op = "get_note"
    /\ resp.note_id = n
    /\ resp.result = Returned(NoteResponse(notes, n, Loaded(notes[n])))
    /\ resp.result[2].raw_text \in RawTexts

\* C32: a step that changes the summary of a note is the step of a worker
\* run on that note and no step of a create_note call or of a read; a step
\* that changes a job_id is a step of the create_note call of that note and
\* no step of a run, and it replaces null by the id of the call's job; a
\* job_id that is set does not change.
C32_SummaryAndJobIdWriters ==
  [][ \A n \in NoteIds :
        /\ notes'[n].summary # notes[n].summary
           => /\ calls' = calls
              /\ resp' = NoResp
              /\ \E run \in ActiveRuns :
                   /\ run.note_id = n
                   /\ run.pc = "write_done"
                   /\ Step(run, Finished(run))
                   /\ notes'[n].summary = run.summary
        /\ notes'[n].job_id # notes[n].job_id
           => /\ runs' = runs
              /\ calls'[n].pc # calls[n].pc
              /\ notes[n].job_id = None
              /\ notes'[n].job_id = calls[n].job
              /\ notes'[n].job_id = Some(jobs[n])
        /\ notes[n].job_id # None => notes'[n].job_id = notes[n].job_id ]_vars

C32_Witness ==
  \E n \in DOMAIN jobs :
    /\ notes[n].job_id = Some(jobs[n])
    /\ notes[n].summary = Some(generate_t5_summary(notes[n].raw_text, FALSE))
    /\ notes[n].status = "failed"
    /\ calls[n].pc = "returned"
    /\ ActiveRuns = {}
    /\ resp # NoResp
    /\ resp.op = "get_notes"

\* C33 as stated: every update_note_status call on an existing note leaves
\* an updated_at that is set and later than the one stored before, also
\* when status, summary and job_id stay as they are.
C33_AsStated ==
  [][ resp' # NoResp /\ resp'.op = "update_note_status"
      /\ resp'.note_id \in NoteIds =>
        LET old == notes[resp'.note_id].updated_at
            new == notes'[resp'.note_id].updated_at
        IN /\ new # None
           /\ old # None => new[1] > old[1] ]_vars

\* C33 amended: a call that assigns to status, summary or job_id a value
\* other than the one its session holds sets updated_at to the time of its
\* transaction, later than the value stored before; a call that assigns no
\* such value leaves updated_at as it is, null when the note was never
\* updated.
C33_StampedOnChange ==
  [][ resp' # NoResp /\ resp'.op = "update_note_status"
      /\ resp'.note_id \in NoteIds =>
        LET old == notes[resp'.note_id].updated_at
            new == notes'[resp'.note_id].updated_at
            held == resp'.held
        IN IF StatusAssignment(held, resp'.status, resp'.summary,
                               resp'.job_id) # held
           THEN /\ new = Some(resp'.now)
                /\ old # None => new[1] > old[1]
           ELSE new = old ]_vars

\* A call with status failed through a session that holds the note as
\* inserted, in the second transaction or a later one: the stored status is
\* failed and updated_at is the time of the call's transaction.
C33_Witness ==
  /\ resp # NoResp
  /\ resp.op = "update_note_status"
  /\ resp.held.status = "queued"
  /\ resp.status = "failed"
  /\ resp.summary = None
  /\ resp.job_id = None
  /\ resp.now >= 2
  /\ notes[resp.note_id].status = "failed"
  /\ notes[resp.note_id].updated_at = Some(resp.now)

mock_create_note(store, raw_text, owner_id, now) ==
  Append(store, Note(raw_text, owner_id, now))

\* MockNoteRepository.get_note_by_id: the id of the note returned, or None.
mock_get_note_by_id(store, note_id, user) ==
  IF note_id \notin DOMAIN store
  THEN None
  ELSE IF user.role = "AGENT" /\ store[note_id].owner_id # user.id
  THEN None
  ELSE Some(note_id)

\* MockNoteRepository.update_note_status: the status is assigned, summary
\* and job_id when they are truthy.
mock_update_note_status(store, note_id, status, summary, job_id) ==
  IF note_id \in DOMAIN store
  THEN [ store EXCEPT
           ![note_id].status = status,
           ![note_id].summary = IF Truthy(summary) THEN summary ELSE @,
           ![note_id].job_id = IF Truthy(job_id) THEN job_id ELSE @ ]
  ELSE store

\* MockNoteRepository.get_notes: the ids of the notes returned, in the order
\* returned, and the total.  The notes are taken in the order of the dict;
\* of the filters, search and status are read.
mock_get_notes(store, user, pagination, filters) ==
  LET values == [ n \in DOMAIN store |-> n ]
      Kept(n) ==
        /\ user.role = "AGENT" => store[n].owner_id = user.id
        /\ filters # None /\ Truthy(filters.search) =>
             \/ Contains(store[n].raw_text, filters.search[1])
             \/ /\ Truthy(store[n].summary)
                /\ Contains(store[n].summary[1], filters.search[1])
        /\ filters # None /\ filters.status # None =>
             store[n].status = filters.status[1]
      kept == SelectSeq(values, Kept)
  IN <<IF pagination = None THEN kept ELSE Window(kept, pagination),
       Len(kept)>>

\* NoteRepository.get_notes with the same arguments: the answers the store
\* can give, each the ids in the order returned and the total.
real_get_notes(table, user, pagination, filters) ==
  { <<IF pagination = None THEN order ELSE Window(order, pagination),
      Cardinality(Matching(table, user, filters))>> :
      order \in NewestFirst(table, Matching(table, user, filters)) }

\* The notes of an answer as the caller sees them: id and attributes.
Returned_notes(table, ids) ==
  [ i \in DOMAIN ids |-> [ id |-> ids[i], note |-> table[ids[i]] ] ]

\* Both repositories are given the same call.
BothCreate ==
  /\ Len(notes) < MaxRows
  /\ \E user \in Callers, raw_text \in SearchTexts, now \in Clock :
       /\ Write(Append(notes, Note(raw_text, user.id, now)))
       /\ mock' = mock_create_note(mock, raw_text, user.id, now)
       /\ resp' = [ op |-> "create_note",
                    real |-> <<Returned_notes(notes', <<Len(notes')>>), 1>>,
                    mock |-> <<Returned_notes(mock', <<Len(mock')>>), 1>> ]
  /\ UNCHANGED <<calls, jobs, runs, listing, users, signups>>

\* (summary, job_id) arguments of the side-by-side calls: absent, empty, given.
MockArguments ==
  { <<None, None>>, <<Some(""), Some("")>> } \cup
  { <<Some(text), Some(JobId(1))>> : text \in SearchSummaries }

BothUpdate ==
  \E note_id \in 1..MaxRows, status \in {"processing", "failed"},
     given \in MockArguments :
    /\ Write(update_note_status(
               notes,
               IF note_id \in NoteIds THEN Loaded(notes[note_id]) ELSE Expired,
               note_id, status, given[1], given[2]))
    /\ mock' = mock_update_note_status(mock, note_id, status, given[1],
                                       given[2])
    /\ resp' =
         [ op |-> "update_note_status",
           real |-> IF note_id \in DOMAIN notes'
                    THEN <<Returned_notes(notes', <<note_id>>), 1>>
                    ELSE <<<<>>, 0>>,
           mock |-> IF note_id \in DOMAIN mock'
                    THEN <<Returned_notes(mock', <<note_id>>), 1>>
                    ELSE <<<<>>, 0>> ]
    /\ UNCHANGED <<calls, jobs, runs, listing, users, signups>>

BothGet ==
  \E note_id \in 1..MaxRows, user \in Users :
    LET real == get_note_by_id(notes, note_id, user)
        fake == mock_get_note_by_id(mock, note_id, user)
    IN /\ resp' =
            [ op |-> "get_note_by_id",
              real |-> IF real = None THEN <<<<>>, 0>>
                       ELSE <<Returned_notes(notes, real), 1>>,
              mock |-> IF fake = None THEN <<<<>>, 0>>
                       ELSE <<Returned_notes(mock, fake), 1>> ]
       /\ UNCHANGED <<notes, calls, jobs, runs, ever_done, listing, users,
                      signups, mock>>

MockPaginations ==
  {None} \cup { PaginationParams(page, 1) : page \in 1..MaxRows }

\* Filters of the side-by-side calls: none given, a word of a text in
\* another case, a character the database reads as a wildcard, a status, and
\* each end of the created-at range.
MockFilters ==
  { NoteFilters(None, None, None, None),
    NoteFilters(Some("IDEAS"), None, None, None),
    NoteFilters(Some("_"), None, None, None),
    NoteFilters(None, Some("failed"), None, None),
    NoteFilters(None, None, Some(2), None),
    NoteFilters(None, None, None, Some(1)) }

BothList ==
  \E user \in Users, pagination \in MockPaginations,
     filters \in {None} \cup MockFilters :
    \E real \in real_get_notes(notes, user, pagination, filters) :
      LET fake == mock_get_notes(mock, user, pagination, filters)
      IN /\ resp' =
              [ op |-> "get_notes", user |-> user, pagination |-> pagination,
                filters |-> filters,
                real |-> <<Returned_notes(notes, real[1]), real[2]>>,
                mock |-> <<Returned_notes(mock, fake[1]), fake[2]>> ]
         /\ UNCHANGED <<notes, calls, jobs, runs, ever_done, listing, users,
                        signups, mock>>

NextMock == BothCreate \/ BothUpdate \/ BothGet \/ BothList

SpecMock == Init /\ [][NextMock]_vars

\* C35: run side by side on the same create_note, update_note_status,
\* get_note_by_id and get_notes calls with the same users, pagination and
\* filters, the in-memory repository and the store-backed repository return
\* the same notes in the same order and the same totals.
C35_SameAnswers ==
  resp # NoResp /\ "mock" \in DOMAIN resp => resp.real = resp.mock
====
